---------------------------- MODULE Spec2Model ----------------------------
(***************************************************************************)
(* A model of e621_dl.py: the clean command (scan, repair, canonicalize,   *)
(* batch-get, download) and mass_download, over an explicit filesystem     *)
(* with directories, regular files and symbolic links.                     *)
(*                                                                         *)
(* A file name is a sequence of one-character strings; a path is the       *)
(* sequence of the names of an absolute path ("/r/a/1 7.j" is              *)
(* << <<"r">>, <<"a">>, <<"1"," ","7",".","j">> >>).                        *)
(***************************************************************************)
EXTENDS Integers, Sequences, FiniteSets, TLC

VARIABLES
    fs,                \* the filesystem: physical path -> node
    pc,                \* position of the running command
    err,               \* the exception that ended the command, "" when none
    dirs,              \* clean: the dirs argument
    download_broken_symlinks,  \* clean: the flag
    di,                \* clean: index of the next root to scan
    post_managers,     \* clean: the registry, in dict insertion order
    pi,                \* clean: index of the entry of the loop at line 183
    original,          \* replace_copies_with_symlinks: the canonical path
    todo,              \* replace_copies_with_symlinks: paths still to replace
    ids_to_download,   \* clean: the pending repairs
    remote,            \* the remote site: the post ids that have a file
    posts,             \* clean: what api.posts.get returned
    zipped_posts,      \* clean: the pairs of line 194
    files,             \* mass_download: the (url, path, size) triples
    fi,                \* mass_download: index of the next triple
    overwrite,         \* mass_download: the flag
    progress,          \* mass_download: the progress bar's count
    run,               \* which invocation of the command this is (1 or 2)
    fsStart,           \* history: fs when the current invocation began
    scanned,           \* history: the registry as the scan left it
    nOps,              \* history: unlink + symlink calls of this invocation
    lastStep,          \* history: what the last step of mass_download did
    tags,              \* normalize_tags: the list it is called on
    result,            \* normalize_tags: what the first call returned
    result2,           \* normalize_tags: what the second call returned
    tpc,               \* normalize_tags: which calls were made
    path_list,         \* find_shortest_path: the list it is called on
    shortest           \* find_shortest_path: what it returned, <<>> before

vars == <<fs, pc, err, dirs, download_broken_symlinks, di,
          post_managers, pi, original, todo, ids_to_download, remote, posts,
          zipped_posts, files, fi, overwrite, progress, run, fsStart,
          scanned, nOps, lastStep, tags, result, result2, tpc,
          path_list, shortest>>

\* the variables of the pure functions, which the commands leave alone
pureVars == <<tags, result, result2, tpc, path_list, shortest>>

\* no call of a pure function is under way
PureIdle ==
    /\ tags = <<>>
    /\ result = <<>>
    /\ result2 = <<>>
    /\ tpc = "idle"
    /\ path_list = <<>>
    /\ shortest = <<>>

-----------------------------------------------------------------------------
(* Bounds of the model *)

\* at most this many non-directory entries in the tree clean starts from
MaxEntries == 2
\* symbolic links followed while resolving one path before ELOOP
MaxHops == 3
\* at most this many triples in a mass_download call of its own
MaxFiles == 2

-----------------------------------------------------------------------------
(* Characters, names, numbers *)

Digit == {"0", "1", "2", "3", "4", "5", "6", "7", "8", "9"}

DigitVal(c) ==
    CASE c = "0" -> 0 [] c = "1" -> 1 [] c = "2" -> 2 [] c = "3" -> 3
      [] c = "4" -> 4 [] c = "5" -> 5 [] c = "6" -> 6 [] c = "7" -> 7
      [] c = "8" -> 8 [] c = "9" -> 9

DigitChar(n) ==
    CASE n = 0 -> "0" [] n = 1 -> "1" [] n = 2 -> "2" [] n = 3 -> "3"
      [] n = 4 -> "4" [] n = 5 -> "5" [] n = 6 -> "6" [] n = 7 -> "7"
      [] n = 8 -> "8" [] n = 9 -> "9"

\* code points of the characters the model uses, for string comparison
Ord(c) ==
    CASE c = " " -> 32 [] c = "." -> 46 [] c \in Digit -> 48 + DigitVal(c)
      [] c = "a" -> 97 [] c = "j" -> 106 [] c = "l" -> 108 [] c = "o" -> 111
      [] c = "r" -> 114 [] c = "x" -> 120 [] OTHER -> 122

\* int(s) of a string of decimal digits
RECURSIVE ParseInt(_)
ParseInt(s) ==
    IF s = <<>> THEN 0
    ELSE 10 * ParseInt(SubSeq(s, 1, Len(s) - 1)) + DigitVal(s[Len(s)])

\* str(n) of a natural number
RECURSIVE IntToStr(_)
IntToStr(n) ==
    IF n < 10 THEN <<DigitChar(n)>>
    ELSE Append(IntToStr(n \div 10), DigitChar(n % 10))

\* Python's < on strings: lexicographic by code point
RECURSIVE StrLess(_, _)
StrLess(s, t) ==
    IF t = <<>> THEN FALSE
    ELSE IF s = <<>> THEN TRUE
    ELSE IF Ord(Head(s)) # Ord(Head(t)) THEN Ord(Head(s)) < Ord(Head(t))
    ELSE StrLess(Tail(s), Tail(t))

\* how many decimal digits s holds from position i on
RECURSIVE DigitRun(_, _)
DigitRun(s, i) ==
    IF i <= Len(s) /\ s[i] \in Digit THEN 1 + DigitRun(s, i + 1) ELSE 0

NoMatch == <<>>

\* VALID_FILE_NAME.match(name)["post_id"]: re.match anchors the pattern
\* \d+ (?P<post_id>\d+) at the start of the name only; NoMatch for None
VALID_FILE_NAME(name) ==
    LET k == DigitRun(name, 1)
        m == DigitRun(name, k + 2)
    IN  IF k >= 1 /\ Len(name) >= k + 1 /\ name[k + 1] = " " /\ m >= 1
        THEN SubSeq(name, k + 2, k + 1 + m)
        ELSE NoMatch


-----------------------------------------------------------------------------
(* Paths *)

Last(s) == s[Len(s)]
Front(s) == SubSeq(s, 1, Len(s) - 1)

\* len(str(p.absolute())) of an absolute path: a "/" before every name
RECURSIVE AbsLen(_)
AbsLen(p) == IF p = <<>> THEN 0 ELSE 1 + Len(Head(p)) + AbsLen(Tail(p))

\* min(paths, key=...) that keeps the last path of the least key
find_shortest_path_last(paths) ==
    paths[CHOOSE i \in 1..Len(paths) :
            \A j \in 1..Len(paths) :
                /\ AbsLen(paths[i]) <= AbsLen(paths[j])
                /\ (j > i => AbsLen(paths[j]) > AbsLen(paths[i]))]

\* the loop of min(): the best path so far gives way only to a path whose
\* key is strictly less
RECURSIVE MinByLen(_, _)
MinByLen(best, rest) ==
    IF rest = <<>> THEN best
    ELSE MinByLen(IF AbsLen(Head(rest)) < AbsLen(best) THEN Head(rest)
                  ELSE best,
                  Tail(rest))

\* min(paths, key=lambda p: len(str(p.absolute())))
find_shortest_path(paths) == MinByLen(Head(paths), Tail(paths))

\* list.remove(x): drops the first occurrence of x
RECURSIVE ListRemove(_, _)
ListRemove(s, x) ==
    IF s = <<>> THEN <<>>
    ELSE IF Head(s) = x THEN Tail(s)
    ELSE <<Head(s)>> \o ListRemove(Tail(s), x)

\* length of the longest common prefix of two paths
RECURSIVE CommonLen(_, _)
CommonLen(p, q) ==
    IF p # <<>> /\ q # <<>> /\ Head(p) = Head(q)
    THEN 1 + CommonLen(Tail(p), Tail(q))
    ELSE 0

\* os.path.relpath(path, start): lexical, ".." for every name of start
\* beyond the common prefix, then the rest of path
RelPath(path, start) ==
    LET k == CommonLen(path, start)
    IN  [abs |-> FALSE, up |-> Len(start) - k,
         down |-> SubSeq(path, k + 1, Len(path))]

-----------------------------------------------------------------------------
(* The filesystem *)

NoTarget == [abs |-> FALSE, up |-> 0, down |-> <<>>]
NoneNode == [kind |-> "none", data |-> 0, target |-> NoTarget]
DirNode == [kind |-> "dir", data |-> 0, target |-> NoTarget]
FileNode(d) == [kind |-> "file", data |-> d, target |-> NoTarget]
LinkNode(t) == [kind |-> "link", data |-> 0, target |-> t]

\* the result of a path lookup that fails (ENOENT, ENOTDIR, ELOOP)
Fail == << <<"!">> >>

\* the node at a physical path; "/" is a directory
Node(f, p) ==
    IF p = <<>> THEN DirNode
    ELSE IF p \in DOMAIN f THEN f[p] ELSE NoneNode

\* the directory n levels above the physical directory cur
RECURSIVE UpDir(_, _)
UpDir(cur, n) ==
    IF n = 0 \/ cur = <<>> THEN cur ELSE UpDir(Front(cur), n - 1)

\* The kernel's path walk from the physical directory cur along the names
\* of rest, following every symbolic link met (the last name included), at
\* most hops of them.  With create, a missing last name in an existing
\* directory is found as the place a file would be created at.
RECURSIVE Walk(_, _, _, _, _)
Walk(f, cur, rest, hops, create) ==
    IF rest = <<>> THEN cur
    ELSE LET p == Append(cur, Head(rest))
             n == Node(f, p)
         IN  CASE n.kind = "dir" -> Walk(f, p, Tail(rest), hops, create)
               [] n.kind = "link" ->
                    IF hops = 0 THEN Fail
                    ELSE Walk(f,
                              IF n.target.abs THEN <<>>
                              ELSE UpDir(cur, n.target.up),
                              n.target.down \o Tail(rest), hops - 1, create)
               [] n.kind = "file" -> IF Tail(rest) = <<>> THEN p ELSE Fail
               [] OTHER -> IF create /\ Tail(rest) = <<>> THEN p ELSE Fail

\* where stat(p) ends, or Fail
Resolve(f, p) == Walk(f, <<>>, p, MaxHops, FALSE)

\* where lstat(p) ends: the parent resolved, the last name not followed
LResolve(f, p) ==
    LET par == Resolve(f, Front(p))
    IN  IF par = Fail \/ Node(f, par).kind # "dir" THEN Fail
        ELSE Append(par, Last(p))

\* Path.exists(), Path.is_dir(), Path.is_file(), Path.is_symlink()
Exists(f, p) == Resolve(f, p) # Fail
IsDir(f, p) == Resolve(f, p) # Fail /\ Node(f, Resolve(f, p)).kind = "dir"
IsFile(f, p) == Resolve(f, p) # Fail /\ Node(f, Resolve(f, p)).kind = "file"
IsSymlink(f, p) ==
    LResolve(f, p) # Fail /\ Node(f, LResolve(f, p)).kind = "link"

\* d.iterdir(): the names in the directory d stands for
IterDir(f, d) == {Last(q) : q \in {x \in DOMAIN f : Front(x) = Resolve(f, d)}}

\* Path.unlink(): removes a file or a link; raises on anything else
CanUnlink(f, p) ==
    LResolve(f, p) # Fail /\ Node(f, LResolve(f, p)).kind \in {"file", "link"}
Unlink(f, p) == [q \in DOMAIN f \ {LResolve(f, p)} |-> f[q]]

\* Path.symlink_to(t): creates a link where nothing is; raises otherwise
CanSymlink(f, p) ==
    LResolve(f, p) # Fail /\ Node(f, LResolve(f, p)).kind = "none"
SymlinkTo(f, p, t) ==
    [q \in DOMAIN f \cup {LResolve(f, p)} |->
        IF q = LResolve(f, p) THEN LinkNode(t) ELSE f[q]]

\* Path.write_bytes(d): open(p, "wb") follows links and creates the file
WriteTarget(f, p) == Walk(f, <<>>, p, MaxHops, TRUE)
CanWrite(f, p) ==
    WriteTarget(f, p) # Fail /\ Node(f, WriteTarget(f, p)).kind # "dir"
WriteBytes(f, p, d) ==
    [q \in DOMAIN f \cup {WriteTarget(f, p)} |->
        IF q = WriteTarget(f, p) THEN FileNode(d) ELSE f[q]]

-----------------------------------------------------------------------------
(* The registry and the path scanner *)

\* PostManager.__init__
PostManager(id) == [id |-> id, copies |-> <<>>, links |-> <<>>]

\* the index of the entry of post_id in the registry, 0 when it has none
IndexOf(reg, post_id) ==
    IF \E i \in 1..Len(reg) : reg[i].id = post_id
    THEN CHOOSE i \in 1..Len(reg) : reg[i].id = post_id
    ELSE 0

\* a scanner that would forget the is_symlink test of line 292
RecordFileAllCopies(f, reg, file) ==
    LET m == VALID_FILE_NAME(Last(file))
    IN  IF m = NoMatch THEN reg
        ELSE LET post_id == ParseInt(m)
                 reg1 == IF \E i \in 1..Len(reg) : reg[i].id = post_id
                         THEN reg
                         ELSE Append(reg, [id |-> post_id, copies |-> <<>>,
                                           links |-> <<>>])
                 i == CHOOSE i \in 1..Len(reg1) : reg1[i].id = post_id
             IN  [reg1 EXCEPT ![i].copies = Append(@, file)]

\* a scanner that would take the number before the space, the ordinal, for
\* the post id
RecordFileByOrdinal(f, reg, file) ==
    LET m == VALID_FILE_NAME(Last(file))
    IN  IF m = NoMatch THEN reg
        ELSE LET post_id ==
                     ParseInt(SubSeq(Last(file), 1, DigitRun(Last(file), 1)))
                 reg1 == IF IndexOf(reg, post_id) = 0
                         THEN Append(reg, PostManager(post_id))
                         ELSE reg
                 i == IndexOf(reg1, post_id)
             IN  IF IsSymlink(f, file)
                 THEN [reg1 EXCEPT ![i].links = Append(@, file)]
                 ELSE [reg1 EXCEPT ![i].copies = Append(@, file)]

\* find_all_posts, the else branch: one entry that is no directory
RecordFile(f, reg, file) ==
    LET m == VALID_FILE_NAME(Last(file))
    IN  IF m = NoMatch THEN reg
        ELSE LET post_id == ParseInt(m)
                 reg1 == IF IndexOf(reg, post_id) = 0
                         THEN Append(reg, PostManager(post_id))
                         ELSE reg
                 i == IndexOf(reg1, post_id)
             IN  IF IsSymlink(f, file)
                 THEN [reg1 EXCEPT ![i].links = Append(@, file)]
                 ELSE [reg1 EXCEPT ![i].copies = Append(@, file)]

\* The registries the loop of find_all_posts(d, ...) can leave when it
\* starts from one of regs with the entries names of d still to come:
\* iterdir lists a directory in an arbitrary order, every order is taken.
RECURSIVE ScanDir(_, _, _, _)
ScanDir(f, d, names, regs) ==
    IF names = {} THEN regs
    ELSE UNION {
           LET file_or_dir == Append(d, n)
               after == IF IsDir(f, file_or_dir)
                        THEN ScanDir(f, file_or_dir,
                                     IterDir(f, file_or_dir), regs)
                        ELSE {RecordFile(f, r, file_or_dir) : r \in regs}
           IN  ScanDir(f, d, names \ {n}, after) : n \in names}

find_all_posts(f, d, reg) == ScanDir(f, d, IterDir(f, d), {reg})

-----------------------------------------------------------------------------
(* The batch-get collaborator and the pairing of clean *)

Range(s) == {s[i] : i \in 1..Len(s)}
Min(a, b) == IF a <= b THEN a ELSE b

\* a Post record of the remote site; file = 0 stands for post.file is None,
\* otherwise file is what file.url serves: the content of the post
Post(id, has_file) == [id |-> id, file |-> IF has_file THEN id ELSE 0]

\* post.file.size
FileSize(file) == file

\* what the remote site can say about which of the asked posts have a file:
\* all of them, or all but one
RemoteOptions(ids) == {Range(ids)} \cup {Range(ids) \ {x} : x \in Range(ids)}

\* what api.posts.get(ids) can return: one record per id in any order, and,
\* for a collaborator that breaks its contract, one id omitted or doubled
Responses(ids) ==
    LET n == Len(ids)
    IN  {s \in [1..n -> Range(ids)] : Range(s) = Range(ids)}
        \cup {SubSeq(ids, 1, k - 1) \o SubSeq(ids, k + 1, n) : k \in 1..n}
        \cup {Append(ids, ids[k]) : k \in 1..n}

\* sorted(ids_to_download, key=lambda p: p[0]): the key is the string
RECURSIVE InsertPending(_, _)
InsertPending(sorted, x) ==
    IF sorted = <<>> THEN <<x>>
    ELSE IF StrLess(x.id, Head(sorted).id) THEN <<x>> \o sorted
    ELSE <<Head(sorted)>> \o InsertPending(Tail(sorted), x)

RECURSIVE SortPending(_)
SortPending(s) ==
    IF s = <<>> THEN <<>>
    ELSE InsertPending(SortPending(Front(s)), Last(s))

\* sorted(posts, key=lambda p: p.id): the key is the integer
RECURSIVE InsertPost(_, _)
InsertPost(sorted, x) ==
    IF sorted = <<>> THEN <<x>>
    ELSE IF x.id < Head(sorted).id THEN <<x>> \o sorted
    ELSE <<Head(sorted)>> \o InsertPost(Tail(sorted), x)

RECURSIVE SortPosts(_)
SortPosts(s) ==
    IF s = <<>> THEN <<>>
    ELSE InsertPost(SortPosts(Front(s)), Last(s))

\* zip(a, b): stops at the end of the shorter one
Zip(a, b) ==
    [i \in 1..Min(Len(a), Len(b)) |-> [pending |-> a[i], post |-> b[i]]]

\* posts_to_download: the pairs whose post has a file, as triples
PostsToDownload(z) ==
    LET kept == SelectSeq(z, LAMBDA e : e.post.file # 0)
    IN  [i \in 1..Len(kept) |->
            [url |-> kept[i].post.file, path |-> kept[i].pending.path,
             size |-> FileSize(kept[i].post.file)]]

-----------------------------------------------------------------------------
(* The trees and arguments the commands start from *)

Root == << <<"r">> >>                       \* /r
SubDir == << <<"r">>, <<"a">> >>            \* /r/a
DirLink == << <<"r">>, <<"l">> >>           \* /r/l, a link to the directory a
OutDir == << <<"o">> >>                     \* /o, outside every root
OutFile == << <<"o">>, <<"f">> >>           \* /o/f, a regular file
NoDir == << <<"q">> >>                      \* /q, which does not exist

N17 == <<"1", " ", "7", ".", "j">>          \* "1 7.j"
N27 == <<"2", " ", "7", ".", "j">>          \* "2 7.j"
N19 == <<"1", " ", "9", ".", "j">>          \* "1 9.j"
N110 == <<"1", " ", "1", "0", ".", "j">>    \* "1 10.j"
N37x == <<"3", " ", "7", "x">>              \* "3 7x": no period after the id
Nx7 == <<"x", "7", ".", "j">>               \* "x7.j": no ordinal

\* the places of the tree an entry can be at
Slots ==
    {Append(Root, n) : n \in {N17, N27, N19, N37x, Nx7}}
    \cup {Append(SubDir, n) : n \in {N17, N27, N110}}

\* the content of the files that are on disk from the start
OldData == 1

\* a dangling link, a link to a file outside the roots, a link to a directory
BrokenTarget == [abs |-> FALSE, up |-> 0, down |-> << <<"g">> >>]
LiveTarget == [abs |-> TRUE, up |-> 0, down |-> OutFile]
DirTarget == [abs |-> FALSE, up |-> 0, down |-> << <<"a">> >>]

EntryOptions ==
    {[at |-> p, node |-> n] :
        p \in Slots,
        n \in {FileNode(OldData), LinkNode(BrokenTarget), LinkNode(LiveTarget)}}
    \cup {[at |-> DirLink, node |-> LinkNode(DirTarget)]}

\* the sets of at most k entries at different places
RECURSIVE EntrySets(_)
EntrySets(k) ==
    IF k = 0 THEN {{}}
    ELSE LET S == EntrySets(k - 1)
         IN  S \cup UNION {{E \cup {o} :
                                o \in {x \in EntryOptions :
                                         \A e \in E : e.at # x.at}} :
                           E \in S}

BasePaths == {Root, SubDir, OutDir, OutFile}

TreeOf(E) ==
    [p \in BasePaths \cup {e.at : e \in E} |->
        IF p = OutFile THEN FileNode(OldData)
        ELSE IF p \in BasePaths THEN DirNode
        ELSE (CHOOSE e \in E : e.at = p).node]

Trees == {TreeOf(E) : E \in EntrySets(MaxEntries)}

\* clean's dirs: one root, the same root twice, a root and a directory in it
DirsOptions == {<<Root>>, <<Root, Root>>, <<Root, SubDir>>}

NoStep == [kind |-> "none", index |-> 0]

InitClean ==
    /\ PureIdle
    /\ fs \in Trees
    /\ dirs \in DirsOptions
    /\ download_broken_symlinks \in BOOLEAN
    /\ pc = "scan"
    /\ err = ""
    /\ di = 1
    /\ post_managers = <<>>
    /\ pi = 0
    /\ original = <<>>
    /\ todo = <<>>
    /\ ids_to_download = <<>>
    /\ remote = {}
    /\ posts = <<>>
    /\ zipped_posts = <<>>
    /\ files = <<>>
    /\ fi = 0
    /\ overwrite = FALSE
    /\ progress = 0
    /\ run = 1
    /\ fsStart = fs
    /\ scanned = <<>>
    /\ nOps = 0
    /\ lastStep = NoStep

\* mass_download called on its own: the places a triple can download to
DestPaths == {Append(Root, N17), Append(SubDir, N27), Append(NoDir, N19)}

DownloadTrees ==
    {TreeOf(E) : E \in {X \in EntrySets(MaxEntries) :
                          \A e \in X : e.at \in DestPaths}}

Triples == {[url |-> u, path |-> p, size |-> FileSize(u)] :
              u \in {7, 9}, p \in DestPaths}

InitDownload ==
    /\ PureIdle
    /\ fs \in DownloadTrees
    /\ files \in UNION {[1..n -> Triples] : n \in 1..MaxFiles}
    /\ overwrite \in BOOLEAN
    /\ pc = "download"
    /\ fi = 1
    /\ err = ""
    /\ dirs = <<>>
    /\ download_broken_symlinks = FALSE
    /\ di = 0
    /\ post_managers = <<>>
    /\ pi = 0
    /\ original = <<>>
    /\ todo = <<>>
    /\ ids_to_download = <<>>
    /\ remote = {}
    /\ posts = <<>>
    /\ zipped_posts = <<>>
    /\ progress = 0
    /\ run = 1
    /\ fsStart = fs
    /\ scanned = <<>>
    /\ nOps = 0
    /\ lastStep = NoStep

-----------------------------------------------------------------------------
(* clean *)

\* lines 180-181: one find_all_posts(d, post_managers) of the loop over dirs
ScanRoot ==
    /\ UNCHANGED pureVars
    /\ pc = "scan"
    /\ \E reg \in find_all_posts(fs, dirs[di], post_managers) :
          /\ post_managers' = reg
          /\ IF di = Len(dirs)
             THEN pc' = "loop" /\ pi' = 1 /\ scanned' = reg
             ELSE UNCHANGED <<pc, pi, scanned>>
    /\ di' = di + 1
    /\ UNCHANGED <<fs, err, dirs, download_broken_symlinks, original, todo,
                   ids_to_download, remote, posts, zipped_posts, files, fi,
                   overwrite, progress, run, fsStart, nOps, lastStep>>

\* lines 186-188: the shortest link becomes the entry's only copy
Promoted(post) ==
    LET new_original_path == find_shortest_path(post.links)
    IN  [post EXCEPT !.links = ListRemove(@, new_original_path),
                     !.copies = Append(@, new_original_path)]

\* lines 183-192 and 270-271: one entry of the loop over the registry, up
\* to the loop of replace_copies_with_symlinks
EntryBegin ==
    /\ UNCHANGED pureVars
    /\ pc = "loop"
    /\ pi <= Len(post_managers)
    /\ LET post == post_managers[pi]
           repair == post.copies = <<>> /\ download_broken_symlinks
           new_original_path == find_shortest_path(post.links)
           post1 == IF repair THEN Promoted(post) ELSE post
           orig == find_shortest_path(post1.copies)
           rest == ListRemove(post1.copies, orig)
       IN  /\ post1.copies # <<>>
           /\ repair => CanUnlink(fs, new_original_path)
           /\ fs' = IF repair THEN Unlink(fs, new_original_path) ELSE fs
           /\ nOps' = IF repair THEN nOps + 1 ELSE nOps
           /\ ids_to_download' =
                 IF repair
                 THEN Append(ids_to_download,
                             [id |-> IntToStr(post.id),
                              path |-> new_original_path])
                 ELSE ids_to_download
           /\ post_managers' =
                 [post_managers EXCEPT ![pi] = [post1 EXCEPT !.copies = rest]]
           /\ original' = orig
           /\ todo' = rest \o post1.links
           /\ IF rest \o post1.links = <<>>
              THEN pc' = "loop" /\ pi' = pi + 1
              ELSE pc' = "replace" /\ pi' = pi
    /\ UNCHANGED <<err, dirs, download_broken_symlinks, di, remote, posts,
                   zipped_posts, files, fi, overwrite, progress, run,
                   fsStart, scanned, lastStep>>

\* the same lines when they raise: min() of an empty copies list (line 299
\* called from 270), or the unlink of line 190 fails
EntryRaise ==
    /\ UNCHANGED pureVars
    /\ pc = "loop"
    /\ pi <= Len(post_managers)
    /\ post_managers[pi].copies = <<>>
    /\ IF download_broken_symlinks
       THEN /\ err' = "PermissionError"
            /\ post_managers' =
                  [post_managers EXCEPT ![pi] = Promoted(post_managers[pi])]
       ELSE /\ err' = "ValueError"
            /\ UNCHANGED post_managers
    /\ pc' = "error"
    /\ UNCHANGED <<fs, dirs, download_broken_symlinks, di, pi, original, todo,
                   ids_to_download, remote, posts, zipped_posts, files, fi,
                   overwrite, progress, run, fsStart, scanned, nOps,
                   lastStep>>

\* lines 272-274: one path of the replacement set, unlinked and linked anew
ReplaceStep ==
    /\ UNCHANGED pureVars
    /\ pc = "replace"
    /\ LET copy == Head(todo)
       IN  /\ CanUnlink(fs, copy)
           /\ CanSymlink(Unlink(fs, copy), copy)
           /\ fs' = SymlinkTo(Unlink(fs, copy), copy,
                              RelPath(original, Front(copy)))
    /\ todo' = Tail(todo)
    /\ nOps' = nOps + 2
    /\ IF Tail(todo) = <<>>
       THEN pc' = "loop" /\ pi' = pi + 1
       ELSE UNCHANGED <<pc, pi>>
    /\ UNCHANGED <<err, dirs, download_broken_symlinks, di, post_managers,
                   original, ids_to_download, remote, posts, zipped_posts,
                   files, fi, overwrite, progress, run, fsStart, scanned,
                   lastStep>>

\* a handler that would swallow the failure and go on with the next path
ReplaceRaiseSkipped ==
    /\ UNCHANGED pureVars
    /\ pc = "replace"
    /\ todo' = Tail(todo)
    /\ IF Tail(todo) = <<>>
       THEN pc' = "loop" /\ pi' = pi + 1
       ELSE UNCHANGED <<pc, pi>>
    /\ UNCHANGED <<fs, err, dirs, download_broken_symlinks, di, post_managers,
                   original, ids_to_download, remote, posts, zipped_posts,
                   files, fi, overwrite, progress, run, fsStart, scanned,
                   nOps, lastStep>>

\* lines 273-274 when one of them raises: unlink finds the path gone, or
\* the system refuses the unlink, or refuses symlink_to after the unlink
\* was done.  Nothing catches the exception: it ends clean.
ReplaceRaise ==
    /\ UNCHANGED pureVars
    /\ pc = "replace"
    /\ \/ /\ ~CanUnlink(fs, Head(todo))
          /\ err' = "FileNotFoundError"
          /\ UNCHANGED <<fs, nOps>>
       \/ /\ err' = "PermissionError"
          /\ UNCHANGED <<fs, nOps>>
       \/ /\ CanUnlink(fs, Head(todo))
          /\ err' = "PermissionError"
          /\ fs' = Unlink(fs, Head(todo))
          /\ nOps' = nOps + 1
    /\ pc' = "error"
    /\ UNCHANGED <<dirs, download_broken_symlinks, di, post_managers, pi,
                   original, todo, ids_to_download, remote, posts,
                   zipped_posts, files, fi, overwrite, progress, run,
                   fsStart, scanned, lastStep>>

\* lines 193-198 up to the loop of mass_download: batch-get, pair, filter
Get ==
    /\ UNCHANGED pureVars
    /\ pc = "loop"
    /\ pi > Len(post_managers)
    /\ LET ids == [i \in 1..Len(ids_to_download) |->
                     ParseInt(ids_to_download[i].id)]
       IN  \E has \in RemoteOptions(ids), resp \in Responses(ids) :
              LET got == [i \in 1..Len(resp) |->
                            Post(resp[i], resp[i] \in has)]
                  z == Zip(SortPending(ids_to_download), SortPosts(got))
              IN  /\ remote' = has
                  /\ posts' = got
                  /\ zipped_posts' = z
                  /\ files' = PostsToDownload(z)
                  /\ pc' = IF PostsToDownload(z) = <<>>
                           THEN "done" ELSE "download"
    /\ fi' = 1
    /\ overwrite' = TRUE
    /\ progress' = 0
    /\ UNCHANGED <<fs, err, dirs, download_broken_symlinks, di, post_managers,
                   pi, original, todo, ids_to_download, run, fsStart,
                   scanned, nOps, lastStep>>

\* a second invocation with the same arguments, on the tree the first left
Rerun ==
    /\ UNCHANGED pureVars
    /\ pc = "done"
    /\ run = 1
    /\ dirs # <<>>
    /\ run' = 2
    /\ pc' = "scan"
    /\ di' = 1
    /\ post_managers' = <<>>
    /\ pi' = 0
    /\ original' = <<>>
    /\ todo' = <<>>
    /\ ids_to_download' = <<>>
    /\ remote' = {}
    /\ posts' = <<>>
    /\ zipped_posts' = <<>>
    /\ files' = <<>>
    /\ fi' = 0
    /\ overwrite' = FALSE
    /\ progress' = 0
    /\ fsStart' = fs
    /\ scanned' = <<>>
    /\ nOps' = 0
    /\ lastStep' = NoStep
    /\ UNCHANGED <<fs, err, dirs, download_broken_symlinks>>

-----------------------------------------------------------------------------
(* mass_download *)

\* a test that would download whatever is on disk
ShouldTransferAlways(f, path, ow) == TRUE

\* line 244: not path.exists() or overwrite
ShouldTransfer(f, path, ow) == ~Exists(f, path) \/ ow

\* lines 242-246: one triple, skipped or downloaded
MassDownloadStep ==
    /\ UNCHANGED pureVars
    /\ pc = "download"
    /\ LET item == files[fi]
           transfer == ShouldTransfer(fs, item.path, overwrite)
       IN  /\ transfer => CanWrite(fs, item.path)
           /\ fs' = IF transfer
                    THEN WriteBytes(fs, item.path, item.url)
                    ELSE fs
           /\ lastStep' = [kind |-> IF transfer THEN "transfer" ELSE "skip",
                           index |-> fi]
           /\ progress' = progress + item.size
    /\ fi' = fi + 1
    /\ pc' = IF fi = Len(files) THEN "done" ELSE "download"
    /\ UNCHANGED <<err, dirs, download_broken_symlinks, di, post_managers, pi,
                   original, todo, ids_to_download, remote, posts,
                   zipped_posts, files, overwrite, run, fsStart, scanned,
                   nOps>>

\* lines 245, 251-254 when download_file raises: requests.get (network,
\* timeout) or write_bytes (disk, a missing parent directory).  Nothing
\* catches the exception: it ends mass_download and its caller.
MassDownloadRaise ==
    /\ UNCHANGED pureVars
    /\ pc = "download"
    /\ ShouldTransfer(fs, files[fi].path, overwrite)
    /\ err' \in {"RequestException", "OSError"}
    /\ pc' = "error"
    /\ lastStep' = [kind |-> "raise", index |-> fi]
    /\ UNCHANGED <<fs, dirs, download_broken_symlinks, di, post_managers, pi,
                   original, todo, ids_to_download, remote, posts,
                   zipped_posts, files, fi, overwrite, progress, run,
                   fsStart, scanned, nOps>>

-----------------------------------------------------------------------------
(* Specifications *)

\* the clean command, run once or twice
Next ==
    \/ ScanRoot
    \/ EntryBegin
    \/ EntryRaise
    \/ ReplaceStep
    \/ ReplaceRaise
    \/ Get
    \/ MassDownloadStep
    \/ MassDownloadRaise
    \/ Rerun

Spec == InitClean /\ [][Next]_vars

\* mass_download on its own, with either value of overwrite
NextDownload ==
    \/ MassDownloadStep
    \/ MassDownloadRaise

SpecDownload == InitDownload /\ [][NextDownload]_vars

-----------------------------------------------------------------------------
(* Properties *)

\* lstat(p) finds a regular file
IsRegular(f, p) ==
    LResolve(f, p) # Fail /\ Node(f, LResolve(f, p)).kind = "file"

\* the paths an entry holds
Tracked(e) == Range(e.copies) \cup Range(e.links)

\* the post id in the name of a path
PostIdOf(p) == ParseInt(VALID_FILE_NAME(Last(p)))

\* the name follows the whole convention "<digits> <digits>.<ext>"
FullConvention(name) ==
    LET k == DigitRun(name, 1)
        m == DigitRun(name, k + 2)
    IN  /\ k >= 1
        /\ Len(name) > k + 1 + m
        /\ name[k + 1] = " "
        /\ m >= 1
        /\ name[k + 2 + m] = "."

\* api.posts.get has answered
Fetched == pc \in {"download", "done"} \/ lastStep.kind # "none"

\* the answer holds exactly one record for each pending id
OneRecordPerId ==
    /\ Len(posts) = Len(ids_to_download)
    /\ {posts[i].id : i \in 1..Len(posts)}
         = {ParseInt(ids_to_download[i].id) : i \in 1..Len(ids_to_download)}

\* the tree the run began on holds no link to a directory, and the scan
\* recorded only names of the whole convention: a run that the scanner's
\* treatment of other entries plays no part in
PlainTree ==
    /\ \A p \in DOMAIN fsStart :
          Node(fsStart, p).kind = "link" => ~IsDir(fsStart, p)
    /\ \A i \in 1..Len(scanned) :
          \A p \in Tracked(scanned[i]) : FullConvention(Last(p))

\* C1: when clean has completed (here on a plain tree), every post id that
\* had a regular copy at scan time has exactly one regular file among its
\* tracked paths, the shortest copy, and every other tracked path of it is
\* a symbolic link that resolves to that file.
C1_OneRegularFilePerPost ==
    (pc = "done" /\ PlainTree) =>
        \A i \in 1..Len(scanned) :
            scanned[i].copies # <<>> =>
                LET canonical == find_shortest_path(scanned[i].copies)
                IN  /\ IsRegular(fs, canonical)
                    /\ \A p \in Tracked(scanned[i]) \ {canonical} :
                          /\ IsSymlink(fs, p)
                          /\ Resolve(fs, p) = LResolve(fs, canonical)

\* C2: when batch-get returns exactly one record for each pending id, every
\* promoted path is paired with the record of the post id in its own name
\* (here on a plain tree).
C2_PairedWithOwnRecord ==
    (Fetched /\ OneRecordPerId /\ PlainTree) =>
        \A i \in 1..Len(zipped_posts) :
            zipped_posts[i].post.id = PostIdOf(zipped_posts[i].pending.path)

\* C3: when clean with repair has completed (here on a plain tree, and
\* batch-get having kept its contract), a post id whose tracked paths were
\* all broken links and whose remote record has a file has its shortest
\* link (the first of them) as a regular file holding downloaded content,
\* and every other tracked path of it is a symbolic link that resolves to
\* that file.
C3_BrokenLinksRepaired ==
    (pc = "done" /\ download_broken_symlinks /\ OneRecordPerId /\ PlainTree) =>
        \A i \in 1..Len(scanned) :
            ( /\ scanned[i].copies = <<>>
              /\ \A p \in Range(scanned[i].links) : ~Exists(fsStart, p)
              /\ scanned[i].id \in remote ) =>
                LET promoted == find_shortest_path(scanned[i].links)
                IN  /\ IsRegular(fs, promoted)
                    /\ Node(fs, LResolve(fs, promoted)).data # OldData
                    /\ \A p \in Range(scanned[i].links) \ {promoted} :
                          /\ IsSymlink(fs, p)
                          /\ Resolve(fs, p) = LResolve(fs, promoted)

\* C4 as stated: a second canonicalization run (clean without repair, run
\* again on the tree the first run left) makes no unlink and no symlink call.
C4_SecondRunNoCalls ==
    (run = 2 /\ ~download_broken_symlinks) => nOps = 0

\* C4 amended: a second canonicalization run, when the system refuses none
\* of its calls, leaves the tree exactly as the first run left it (every
\* link it unlinks it creates again with the same target).
C4_SecondRunSameTree ==
    (run = 2 /\ ~download_broken_symlinks /\ err # "PermissionError")
        => fs = fsStart

\* C4, its case: a second run has completed and has unlinked and linked.
C4_Witness ==
    run = 2 /\ ~download_broken_symlinks /\ pc = "done" /\ nOps > 0

\* C5: no path of the registry passes through a symbolic link to a
\* directory.
C5_NoSymlinkedDirectoryEntered ==
    \A i \in 1..Len(post_managers) :
        \A p \in Tracked(post_managers[i]) :
            \A k \in 1..(Len(p) - 1) : ~IsSymlink(fs, SubSeq(p, 1, k))

\* C6: every path of the registry has a name of the whole convention
\* "<digits> <digits>.<ext>".
C6_OnlyConventionNames ==
    \A i \in 1..Len(post_managers) :
        \A p \in Tracked(post_managers[i]) : FullConvention(Last(p))

\* C7: when mass_download has ended, by returning or by an exception, no
\* triple after a failed one is left unprocessed.
C7_LaterItemsProcessed ==
    pc \in {"done", "error"} => fi >= Len(files)

\* C8: a step of mass_download transfers its triple exactly when the
\* destination does not exist or overwrite is set; otherwise it transfers
\* nothing and leaves the tree as it is.
C8_TransferIffMissingOrOverwrite ==
    [][(pc = "download" /\ pc' # "error") =>
         LET item == files[fi]
         IN  IF ~Exists(fs, item.path) \/ overwrite
             THEN /\ lastStep' = [kind |-> "transfer", index |-> fi]
                  /\ Node(fs', Resolve(fs', item.path)) = FileNode(item.url)
             ELSE /\ lastStep' = [kind |-> "skip", index |-> fi]
                  /\ fs' = fs]_vars

\* C8, its case: a triple was skipped because its destination was there.
C8_Witness ==
    /\ lastStep.kind = "skip"
    /\ ~overwrite
    /\ Exists(fs, files[lastStep.index].path)
    /\ fi > 1

\* C9: a step of the replacement loop that does not leave its path as the
\* link to the canonical path ends the run with an error, and after the
\* error nothing of the tree changes.
C9_FailureAbortsRun ==
    [][/\ (pc = "replace" /\
             ~( /\ IsSymlink(fs', Head(todo))
                /\ Node(fs', LResolve(fs', Head(todo))).target
                     = RelPath(original, Front(Head(todo))) ))
          => (pc' = "error" /\ err' # "")
       /\ pc = "error" => (pc' = "error" /\ fs' = fs)]_vars

\* C9, its case: the replacement of a path failed with later paths of the
\* replacement set still to come.
C9_Witness ==
    /\ pc = "error"
    /\ err \in {"PermissionError", "FileNotFoundError"}
    /\ Len(todo) >= 2
    /\ \E p \in Range(Tail(todo)) : IsRegular(fs, p)

\* C10: clean does not complete when batch-get returned a number of records
\* other than the number of pending repairs.
C10_CountMismatchIsFatal ==
    pc = "done" => Len(posts) = Len(ids_to_download)

(***************************************************************************)
(* Tag normalisation: sort_tag and normalize_tags.  A tag is a tuple of    *)
(* characters; NUL is the character "\x00".                                *)
(***************************************************************************)

NUL == "NUL"

\* str.encode(): the UTF-8 byte of each character of the tags modelled
Byte(c) ==
    CASE c = NUL -> 0
      [] c = " " -> 32
      [] c = "-" -> 45
      [] c = ":" -> 58
      [] c = "A" -> 65
      [] c = "a" -> 97
      [] c = "b" -> 98

\* int.from_bytes(bytes, "little", signed=False): the first byte is the
\* lowest digit in base 256
RECURSIVE from_bytes(_)
from_bytes(t) ==
    IF t = <<>> THEN 0 ELSE Byte(Head(t)) + 256 * from_bytes(Tail(t))

\* sort_tag without the negation of the tags that have ":" or a leading "-"
sort_tag_unsigned(tag) == from_bytes(tag)

\* sort_tag(tag)
sort_tag(tag) ==
    LET code == from_bytes(tag)
    IN  IF (\E i \in 1..Len(tag) : tag[i] = ":")
           \/ (tag # <<>> /\ tag[1] = "-")
        THEN -code
        ELSE code

\* str.lower()
str_lower(t) == [i \in 1..Len(t) |-> IF t[i] = "A" THEN "a" ELSE t[i]]

\* str.strip(): leading and trailing whitespace removed
RECURSIVE str_strip(_)
str_strip(t) ==
    IF t = <<>> THEN <<>>
    ELSE IF Head(t) = " " THEN str_strip(Tail(t))
    ELSE IF Last(t) = " " THEN str_strip(Front(t))
    ELSE t

\* one insertion of the stable descending sort: x goes behind every element
\* whose key is at least its own
RECURSIVE InsertTag(_, _)
InsertTag(sorted, x) ==
    IF sorted = <<>> THEN <<x>>
    ELSE IF sort_tag(x) > sort_tag(Head(sorted)) THEN <<x>> \o sorted
    ELSE <<Head(sorted)>> \o InsertTag(Tail(sorted), x)

\* list.sort(reverse=True, key=sort_tag): descending, equal keys keep the
\* order they had in the list
RECURSIVE SortTags(_)
SortTags(s) ==
    IF s = <<>> THEN <<>> ELSE InsertTag(SortTags(Front(s)), Last(s))

\* normalize_tags that sorts the raw tags first and cleans them afterwards
normalize_tags_sort_first(ts) ==
    LET sorted == SortTags(ts)
    IN  [i \in 1..Len(sorted) |-> str_strip(str_lower(sorted[i]))]

\* normalize_tags(tags)
normalize_tags(ts) ==
    SortTags([i \in 1..Len(ts) |-> str_strip(str_lower(ts[i]))])

\* the tags the lists are drawn from: plain ones, one in upper case, one with
\* whitespace around, ones with ":" or a leading "-", and one with a trailing
\* NUL character
TagPool ==
    { <<"a">>, <<"b">>, <<"A">>, <<"a", "b">>, <<" ", "b", " ">>,
      <<"-", "a">>, <<"-", "b">>, <<"a", ":", "b">>, <<"a", NUL>> }

MaxTags == 3

TagLists == UNION {[1..n -> TagPool] : n \in 0..MaxTags}

\* every reordering of a list
Reorderings(s) ==
    LET n == Len(s)
        bij == {f \in [1..n -> 1..n] : \A i, j \in 1..n : f[i] = f[j] => i = j}
    IN  {[i \in 1..n |-> s[f[i]]] : f \in bij}

CleanIdle ==
    /\ fs = [p \in {<<>>} |-> DirNode]
    /\ pc = "idle"
    /\ err = ""
    /\ dirs = <<>>
    /\ download_broken_symlinks = FALSE
    /\ di = 1
    /\ post_managers = <<>>
    /\ pi = 1
    /\ original = <<>>
    /\ todo = <<>>
    /\ ids_to_download = <<>>
    /\ remote = {}
    /\ posts = <<>>
    /\ zipped_posts = <<>>
    /\ files = <<>>
    /\ fi = 1
    /\ overwrite = FALSE
    /\ progress = 0
    /\ run = 1
    /\ fsStart = fs
    /\ scanned = <<>>
    /\ nOps = 0
    /\ lastStep = NoStep

cleanVars == <<fs, pc, err, dirs, download_broken_symlinks, di, post_managers,
               pi, original, todo, ids_to_download, remote, posts,
               zipped_posts, files, fi, overwrite, progress, run, fsStart,
               scanned, nOps, lastStep>>

InitTags ==
    /\ CleanIdle
    /\ tags \in TagLists
    /\ result = <<>>
    /\ result2 = <<>>
    /\ tpc = "input"
    /\ path_list = <<>>
    /\ shortest = <<>>

\* normalize_tags is called on the list
Normalize ==
    /\ tpc = "input"
    /\ result' = normalize_tags(tags)
    /\ tpc' = "once"
    /\ UNCHANGED <<tags, result2, path_list, shortest>>
    /\ UNCHANGED cleanVars

\* normalize_tags is called on the same tags in another order
NormalizeShuffled ==
    /\ tpc = "once"
    /\ \E l \in Reorderings(tags) \ {tags} :
          /\ tags' = l
          /\ result2' = normalize_tags(l)
    /\ tpc' = "shuffled"
    /\ UNCHANGED <<result, path_list, shortest>>
    /\ UNCHANGED cleanVars

\* normalize_tags is called on what it returned
NormalizeAgain ==
    /\ tpc = "once"
    /\ result2' = normalize_tags(result)
    /\ tpc' = "again"
    /\ UNCHANGED <<tags, result, path_list, shortest>>
    /\ UNCHANGED cleanVars

NextTags ==
    \/ Normalize
    \/ NormalizeShuffled
    \/ NormalizeAgain

SpecTags == InitTags /\ [][NextTags]_vars

\* a tag with ":" or a leading "-"
IsSpecialTag(t) ==
    (\E i \in 1..Len(t) : t[i] = ":") \/ (t # <<>> /\ t[1] = "-")

\* C11: normalize_tags returns the same list for every order of the same
\* tags: the second call, on a reordering of the list, returns what the first
\* call returned.
C11_OrderIndependent ==
    tpc = "shuffled" => result2 = result

\* C12: normalize_tags is idempotent: called on its own output it returns
\* that output.
C12_Idempotent ==
    tpc = "again" => result2 = result

C12_Witness ==
    /\ tpc = "again"
    /\ result # tags
    /\ \E i, j \in 1..Len(result) : i # j /\ sort_tag(result[i]) = sort_tag(result[j])
                                     /\ result[i] # result[j]

\* C13: in the list normalize_tags returns, every tag that has ":" or a
\* leading "-" comes strictly after every plain tag.
C13_SpecialTagsLast ==
    tpc # "input" =>
        \A i, j \in 1..Len(result) :
            (IsSpecialTag(result[i]) /\ ~IsSpecialTag(result[j])) => j < i

C13_Witness ==
    /\ tpc = "once"
    /\ Len(tags) = 3
    /\ IsSpecialTag(tags[1])
    /\ ~IsSpecialTag(tags[2])
    /\ IsSpecialTag(tags[3])
    /\ ~IsSpecialTag(result[1])

(***************************************************************************)
(* find_shortest_path on its own                                           *)
(***************************************************************************)

\* the paths the lists are drawn from: three of one length, one longer by a
\* character, one a directory deeper
PathPool ==
    { Root \o <<N17>>, Root \o <<N27>>, Root \o <<N19>>, Root \o <<N110>>,
      SubDir \o <<N17>> }

MaxPaths == 3

PathLists == UNION {[1..n -> PathPool] : n \in 1..MaxPaths}

InitShortest ==
    /\ CleanIdle
    /\ tags = <<>>
    /\ result = <<>>
    /\ result2 = <<>>
    /\ tpc = "idle"
    /\ path_list \in PathLists
    /\ shortest = <<>>

\* find_shortest_path is called on the list
FindShortest ==
    /\ path_list # <<>>
    /\ shortest = <<>>
    /\ shortest' = find_shortest_path(path_list)
    /\ UNCHANGED <<tags, result, result2, tpc, path_list>>
    /\ UNCHANGED cleanVars

NextShortest == FindShortest

SpecShortest == InitShortest /\ [][NextShortest]_vars

\* C14: find_shortest_path returns a path of the list whose absolute string
\* is of the least length, and of the paths of that length the one that
\* comes first in the list.
C14_ShortestFirstOnTies ==
    shortest # <<>> =>
        \E i \in 1..Len(path_list) :
            /\ shortest = path_list[i]
            /\ \A j \in 1..Len(path_list) :
                  AbsLen(path_list[j]) >= AbsLen(shortest)
            /\ \A j \in 1..(i - 1) :
                  AbsLen(path_list[j]) # AbsLen(shortest)

C14_Witness ==
    /\ shortest # <<>>
    /\ Len(path_list) = 3
    /\ AbsLen(path_list[1]) > AbsLen(path_list[2])
    /\ AbsLen(path_list[3]) = AbsLen(path_list[2])
    /\ path_list[3] # path_list[2]
    /\ shortest = path_list[2]

(***************************************************************************)
(* The loop of clean and the transfers, further properties                 *)
(***************************************************************************)

\* C15: for a repaired entry, no link to the promoted path L is created
\* while L does not exist: every tracked path that clean has turned into a
\* link to a pending path L finds L in place (here on a plain tree).
C15_NoLinkBeforeFetch ==
    PlainTree =>
    \A k \in 1..Len(ids_to_download) :
        \A i \in 1..Len(scanned) :
            \A q \in Tracked(scanned[i]) :
                LET L == ids_to_download[k].path
                IN  (/\ q # L
                     /\ Node(fs, q) # Node(fsStart, q)
                     /\ Node(fs, q).kind = "link"
                     /\ Node(fs, q).target = RelPath(L, Front(q)))
                    => Exists(fs, L)

\* C16: with download_broken_symlinks false, an entry that has links and no
\* copies is skipped: the run does not end in an error at that entry and the
\* links of the entry are on disk as they were.
C16_LinkOnlyEntrySkipped ==
    (/\ PlainTree
     /\ ~download_broken_symlinks
     /\ pc # "scan"
     /\ pi \in 1..Len(scanned)
     /\ scanned[pi].copies = <<>>)
    => /\ pc # "error"
       /\ \A q \in Range(scanned[pi].links) : Node(fs, q) = Node(fsStart, q)

\* every path of every entry has a name that parses to the id of the entry
NamesParse(reg) ==
    \A i \in 1..Len(reg) :
        \A p \in Tracked(reg[i]) :
            /\ VALID_FILE_NAME(Last(p)) # NoMatch
            /\ PostIdOf(p) = reg[i].id

\* the loop of clean is at an entry whose link lines 186-188 promote
AtPromotion ==
    /\ pc = "loop"
    /\ pi <= Len(post_managers)
    /\ post_managers[pi].copies = <<>>
    /\ download_broken_symlinks

\* the registry as lines 186-188 leave it
RegistryAfterPromotion ==
    [post_managers EXCEPT ![pi] = Promoted(post_managers[pi])]

\* the scan is under way or has just ended
AfterScanStep == pc = "scan" \/ (pc = "loop" /\ pi = 1)

\* C17, as claimed: after each scan step and after each promotion every
\* path of an entry has a name that parses to the id of the entry, and
\* every entry of the registry holds at least one path.
C17_EveryEntryHoldsAPath ==
    PlainTree =>
    /\ AfterScanStep =>
          /\ NamesParse(post_managers)
          /\ \A i \in 1..Len(post_managers) : Tracked(post_managers[i]) # {}
    /\ AtPromotion =>
          /\ NamesParse(RegistryAfterPromotion)
          /\ \A i \in 1..Len(post_managers) :
                Tracked(RegistryAfterPromotion[i]) # {}

\* C17, amended: at every point of a run of clean every path of an entry has
\* a name that parses to the id of the entry; after each scan step every
\* entry holds at least one path, and after a promotion the promoted entry
\* and every entry behind it do (an entry the loop has been through has
\* lost its canonical path and may hold none).
C17_NamesParseEntriesAheadHoldAPath ==
    /\ NamesParse(post_managers)
    /\ AfterScanStep =>
          \A i \in 1..Len(post_managers) : Tracked(post_managers[i]) # {}
    /\ AtPromotion =>
          /\ NamesParse(RegistryAfterPromotion)
          /\ \A i \in pi..Len(post_managers) :
                Tracked(RegistryAfterPromotion[i]) # {}
    /\ pc \in {"loop", "replace"} =>
          \A i \in (pi + 1)..Len(post_managers) :
              Tracked(post_managers[i]) # {}

C17_Witness ==
    /\ AtPromotion
    /\ pi = 2
    /\ Tracked(post_managers[1]) = {}
    /\ Len(post_managers[2].links) = 1
    /\ Tracked(RegistryAfterPromotion[2]) # {}

\* C18: when a transfer is made to a destination whose parent directory
\* does not exist, the parent is created and the content written: such a
\* transfer never ends in the error of write_bytes.
C18_ParentsCreated ==
    (/\ lastStep.kind = "raise"
     /\ err = "OSError"
     /\ ~IsDir(fsStart, Front(files[lastStep.index].path)))
    => /\ IsDir(fs, Front(files[lastStep.index].path))
       /\ IsFile(fs, files[lastStep.index].path)

\* a list without a repeated element
NoRepeat(s) == \A i, j \in 1..Len(s) : s[i] = s[j] => i = j

\* C19: when all the roots are scanned, no path is twice in the copies or in
\* the links of an entry and no path is in both, whatever the roots.
C19_NoPathTwice ==
    PlainTree =>
    \A i \in 1..Len(scanned) :
        /\ NoRepeat(scanned[i].copies)
        /\ NoRepeat(scanned[i].links)
        /\ Range(scanned[i].copies) \cap Range(scanned[i].links) = {}

\* C20: repair unlinks and downloads anew only a dangling link: every path
\* on the pending list was a link whose target did not exist.
C20_OnlyDanglingRepaired ==
    PlainTree =>
    \A k \in 1..Len(ids_to_download) :
        ~Exists(fsStart, ids_to_download[k].path)

=============================================================================
